---- MODULE Spec2Model ----
(***************************************************************************)
(* Quantum Lotto: the SQLite store (src/database.py) and the bot's         *)
(* handlers and timers (src/bot.py) as one state machine.                  *)
(*                                                                         *)
(* Every handler is an asyncio coroutine; control can pass to another      *)
(* coroutine at every `await`.  Each database function opens a connection *)
(* of its own, so one step of the model is one SQL statement, or one write *)
(* transaction (first write statement up to commit: SQLite serialises      *)
(* writers and readers never see uncommitted rows).  SELECTs whose result  *)
(* nothing reads again (get_instability in pull and stabilize, the SELECT  *)
(* that ends update_user_credits) take no step of their own.               *)
(*                                                                         *)
(* Instability is stored in tenths of a percent: 0 .. 1000 is 0.0 .. 100.0.*)
(* Each random.uniform draw is a choice among a few values of its range,   *)
(* its two ends included.                                                  *)
(*                                                                         *)
(* Spec is the bot with its coroutines interleaved.  SpecPulls and         *)
(* SpecAdjust run one caller's /pull commands, and update_instability      *)
(* calls, one after another; SpecProb applies                              *)
(* calculate_adjusted_probabilities (src/loot_system.py) to a range of     *)
(* arguments and SpecMono to pairs of arguments in [0, 100]; SpecCycle is  *)
(* the two timers alone, each weakly fair.                                 *)
(***************************************************************************)
EXTENDS Integers, FiniteSets, Sequences, TLC

\* ------------------------------------------------------------- bounds
\* coroutine invocations per behaviour (a /pull, a /stabilize, an on_message,
\* a tick of the passive-drift timer), each run once
NTasks == 2
\* calculate_adjusted_probabilities is tried on the instabilities
\* -5.0 * ProbSpan, ..., -5.0, 0.0, 5.0, ..., 5.0 * ProbSpan
ProbSpan == 40

\* ------------------------------------------------- program constants
INSTABILITY_INCREASE_PER_MESSAGE == 3
COLLAPSE_THRESHOLD_MIN == 950
COLLAPSE_THRESHOLD_MAX == 990
MinInstability == 0
MaxInstability == 1000
StartingCredits == 10
PullCost == 1
StabilizeCost == 10
PullIncreaseMin == 15
PullIncreaseMax == 35
PassiveIncreaseMin == 5
PassiveIncreaseMax == 20
StabilizeReductionMin == 50
StabilizeReductionMax == 150
RemovalPercentMin == 50
RemovalPercentMax == 80

Users == {"u1", "u2"}
NoUser == "nobody"
Null == 0
Tasks == 1 .. NTasks
Rarities == {"Common", "Rare", "Epic", "Legendary", "Mythic", "Reality Breaker"}
\* random.choices over the six rarities: the likeliest and the least likely
RarityDraws == {"Common", "Reality Breaker"}

VARIABLES
  users,             \* table users: user_id -> row (present, credits, stats)
  items,             \* table loot_items: set of rows [id, user_id, rarity]
  next_id,           \* AUTOINCREMENT of loot_items.id
  instability,       \* universe_state.instability, in tenths
  collapse_count,    \* universe_state.collapse_count
  last_collapse,     \* universe_state.last_collapse (Null or a clock value)
  total_messages,    \* universe_state.total_messages
  now,               \* the clock datetime.utcnow() reads at a collapse
  collapse_threshold,\* QuantumLottoBot.collapse_threshold
  task,              \* the handler invocations and their local variables
  ck,                \* the instability_checker loop
  notice,            \* the last collapse announcement sent
  snapshot           \* which persisted database the process started on

dbvars == <<users, items, next_id, instability, collapse_count, last_collapse,
            total_messages, now>>
vars == <<users, items, next_id, instability, collapse_count, last_collapse,
          total_messages, now, collapse_threshold, task, ck, notice,
          snapshot>>

\* ------------------------------------------------------------ helpers
Max(a, b) == IF a >= b THEN a ELSE b
Min(a, b) == IF a <= b THEN a ELSE b

\* Clamp without the upper end: max(0.0, x)
ClampFloorOnly(x) == Max(MinInstability, x)

\* max(0.0, min(100.0, x))
Clamp(x) == Max(MinInstability, Min(MaxInstability, x))

\* NewInstability without the clamp
NewInstabilityUnclamped(current, change) == current + change

\* new_instability = max(0.0, min(100.0, current + change))
NewInstability(current, change) == Clamp(current + change)

\* ItemsToRemove rounding up instead of truncating
ItemsToRemoveRoundUp(total_items, pct) == (total_items * pct + 99) \div 100

\* int(total_items * removal_percentage), the percentage in hundredths
ItemsToRemove(total_items, pct) == (total_items * pct) \div 100

\* Sufficient that only asks for a balance that is not negative
SufficientNonNegative(credits, cost) == credits >= 0

\* the negation of `user['credits'] < cost`
Sufficient(credits, cost) == credits >= cost

Cost(kind) == IF kind = "pull" THEN PullCost ELSE StabilizeCost

\* Thresholds drawn up to 100.0 instead of COLLAPSE_THRESHOLD_MAX
ThresholdsUpToFull == {COLLAPSE_THRESHOLD_MIN, MaxInstability}

\* PassiveIncreases with the sign turned: the drift lowers the instability
PassiveIncreasesNegated == {0 - PassiveIncreaseMin, 0 - PassiveIncreaseMax}

\* random.uniform(a, b) is a + (b - a) * random(): the ends of the range
\* (rounding can return b itself)
Thresholds == {COLLAPSE_THRESHOLD_MIN, COLLAPSE_THRESHOLD_MAX}
PullIncreases == {PullIncreaseMin, PullIncreaseMax}
PassiveIncreases == {PassiveIncreaseMin, PassiveIncreaseMax}
StabilizeChanges == {0 - StabilizeReductionMin, 0 - StabilizeReductionMax}
RemovalPercents ==
  {RemovalPercentMin, (RemovalPercentMin + RemovalPercentMax) \div 2,
   RemovalPercentMax}

AbsentUser ==
  [present |-> FALSE, credits |-> 0, total_pulls |-> 0,
   total_stabilizations |-> 0]
\* INSERT INTO users (user_id, username, credits) VALUES (?, ?, 10)
NewUser ==
  [present |-> TRUE, credits |-> StartingCredits, total_pulls |-> 0,
   total_stabilizations |-> 0]

\* the dict get_universe_state returns, before any call has returned one
NoState ==
  [instability |-> 0, collapse_count |-> 0, last_collapse |-> Null,
   total_messages |-> 0]
\* state: the result of get_universe_state; seen: the rows of loot_items an
\* inventory query has read, until: the AUTOINCREMENT value at that read
\* (the code keeps no such value)
\* adjusted: the dict calculate_adjusted_probabilities builds
IdleTask ==
  [kind |-> "none", user |-> NoUser, pc |-> "idle", current |-> 0,
   change |-> 0, epoch |-> 0, state |-> NoState, seen |-> {}, until |-> 0,
   adjusted |-> <<>>]
\* removed: the rows of ids_to_remove
IdleChecker ==
  [pc |-> "tick", total_items |-> 0, all_ids |-> {}, items_removed |-> 0,
   removed |-> {}]
NoNotice == [items_removed |-> 0, collapse_count |-> 0]

\* ResetUniverse that stores a count of 1 instead of adding 1
ResetUniverseSetsCount ==
  /\ instability' = 0
  /\ now' = now + 1
  /\ last_collapse' = now'
  /\ collapse_count' = 1

\* UPDATE universe_state SET instability = 0.0, last_collapse = ?,
\*   collapse_count = collapse_count + 1
ResetUniverse ==
  /\ instability' = 0
  /\ now' = now + 1
  /\ last_collapse' = now'
  /\ collapse_count' = collapse_count + 1

Finished(t) == task[t].pc \in {"ok", "rejected", "error", "done"}

\* a coroutine that has returned (or raised): its locals are gone
Ended(tk, how) ==
  IF tk.kind \in {"pull", "stabilize"}
  THEN [IdleTask EXCEPT !.kind = tk.kind, !.user = tk.user, !.pc = how]
  ELSE [IdleTask EXCEPT !.pc = IF how = "error" THEN "error" ELSE "done"]

\* ---------------------------------------------------------------- Init
(* The database file outlives the process (CREATE TABLE IF NOT EXISTS,     *)
(* INSERT OR IGNORE), so the bot starts on whatever an earlier run left.   *)
(* "fresh": a new database, or one that only passive drift has touched.    *)
(* "spent": u1 has pulled 9 times (ids 1..9), one collapse has removed 7   *)
(* of the 9 items; passive drift since.                                    *)
Snapshots == {"fresh", "spent"}
InitInstabilities == {0, 960}
SpentPulls == StartingCredits - PullCost

InitialCredits(snap, u) ==
  IF snap = "spent" /\ u = "u1" THEN StartingCredits - SpentPulls * PullCost
  ELSE StartingCredits

Init ==
  /\ snapshot \in Snapshots
  /\ users = [u \in Users |->
       IF snapshot = "spent" /\ u = "u1"
       THEN [present |-> TRUE, credits |-> InitialCredits(snapshot, u),
             total_pulls |-> SpentPulls, total_stabilizations |-> 0]
       ELSE AbsentUser]
  /\ items = IF snapshot = "spent"
             THEN {[id |-> i, user_id |-> "u1", rarity |-> "Common"] :
                     i \in {SpentPulls - 1, SpentPulls}}
             ELSE {}
  /\ next_id = IF snapshot = "spent" THEN SpentPulls + 1 ELSE 1
  /\ instability \in InitInstabilities
  /\ collapse_count = IF snapshot = "spent" THEN 1 ELSE 0
  /\ now = collapse_count
  /\ last_collapse = IF snapshot = "spent" THEN now ELSE Null
  /\ total_messages = 0
  /\ collapse_threshold \in Thresholds
  /\ task = [t \in Tasks |-> IdleTask]
  /\ ck = IdleChecker
  /\ notice = NoNotice

\* ------------------------------------------------- handler invocations
\* tasks are started in the order of their labels (they are interchangeable)
CanStart(t) == task[t].pc = "idle" /\ \A s \in Tasks : s < t => task[s].pc # "idle"

\* on_message from a bot account: `if message.author.bot: return`
OnMessageBot(t) ==
  /\ CanStart(t)
  /\ task' = [task EXCEPT ![t] = [IdleTask EXCEPT !.pc = "done"]]
  /\ UNCHANGED <<dbvars, collapse_threshold, ck, notice, snapshot>>

\* /pull or /stabilize (or the buttons that call the same callbacks)
StartCommand(t, kind, u) ==
  /\ CanStart(t)
  /\ task' = [task EXCEPT ![t] =
       [IdleTask EXCEPT !.kind = kind, !.user = u, !.pc = "get"]]
  /\ UNCHANGED <<dbvars, collapse_threshold, ck, notice, snapshot>>

\* AfterCheck that asks for more than the cost
AfterCheckStrict(kind, credits) ==
  IF credits > Cost(kind) THEN "debit" ELSE "rejected"

\* the credit check that follows get_or_create_user
AfterCheck(kind, credits) ==
  IF Sufficient(credits, Cost(kind)) THEN "debit" ELSE "rejected"

\* the invocation after get_or_create_user returned `credits`: the credit
\* check of /pull and /stabilize, `if not items` of /inventory (the empty
\* inventory is answered at once)
Checked(tk, credits) ==
  IF tk.kind = "inventory"
  THEN IF tk.seen = {} THEN Ended(tk, "ok") ELSE [tk EXCEPT !.pc = "counts"]
  ELSE IF AfterCheck(tk.kind, credits) = "rejected" THEN Ended(tk, "rejected")
  ELSE [tk EXCEPT !.pc = "debit"]

\* get_or_create_user: SELECT * FROM users WHERE user_id = ?
GetUser(t) ==
  /\ task[t].pc = "get"
  /\ LET row == users[task[t].user] IN
       task' = [task EXCEPT ![t] =
         IF row.present
         THEN Checked(task[t], row.credits)
         ELSE [@ EXCEPT !.pc = "insert"]]
  /\ UNCHANGED <<dbvars, collapse_threshold, ck, notice, snapshot>>

\* get_or_create_user: INSERT INTO users ...; commit.  user_id is the primary
\* key: the INSERT of a row another invocation has inserted meanwhile raises.
InsertUser(t) ==
  /\ task[t].pc = "insert"
  /\ IF users[task[t].user].present
     THEN /\ task' = [task EXCEPT ![t] = Ended(task[t], "error")]
          /\ UNCHANGED users
     ELSE /\ users' = [users EXCEPT ![task[t].user] = NewUser]
          /\ task' = [task EXCEPT ![t].pc = "reget"]
  /\ UNCHANGED <<items, next_id, instability, collapse_count, last_collapse,
                 total_messages, now, collapse_threshold, ck, notice,
                 snapshot>>

\* get_or_create_user: the second SELECT, then the caller's credit check
RegetUser(t) ==
  /\ task[t].pc = "reget"
  /\ LET row == users[task[t].user] IN
       task' = [task EXCEPT ![t] =
         Checked(task[t], row.credits)]
  /\ UNCHANGED <<dbvars, collapse_threshold, ck, notice, snapshot>>

\* UpdateUserCredits that charges every command the price of a pull
UpdateUserCreditsFlat(t) ==
  /\ task[t].pc = "debit"
  /\ users' = [users EXCEPT ![task[t].user].credits = @ - PullCost]
  /\ task' = [task EXCEPT ![t].pc = "stat"]
  /\ UNCHANGED <<items, next_id, instability, collapse_count, last_collapse,
                 total_messages, now, collapse_threshold, ck, notice,
                 snapshot>>

\* update_user_credits(user_id, -cost): UPDATE users SET credits = credits + ?
UpdateUserCredits(t) ==
  /\ task[t].pc = "debit"
  /\ users' = [users EXCEPT ![task[t].user].credits = @ - Cost(task[t].kind)]
  /\ task' = [task EXCEPT ![t].pc = "stat"]
  /\ UNCHANGED <<items, next_id, instability, collapse_count, last_collapse,
                 total_messages, now, collapse_threshold, ck, notice,
                 snapshot>>

\* increment_user_stat(user_id, 'total_pulls' | 'total_stabilizations');
\* stabilize then draws its reduction and calls update_instability
IncrementUserStat(t) ==
  /\ task[t].pc = "stat"
  /\ IF task[t].kind = "pull"
     THEN /\ users' = [users EXCEPT ![task[t].user].total_pulls = @ + 1]
          /\ task' = [task EXCEPT ![t].pc = "item"]
     ELSE /\ users' = [users EXCEPT ![task[t].user].total_stabilizations = @ + 1]
          /\ \E c \in StabilizeChanges :
               task' = [task EXCEPT ![t].pc = "upd_read", ![t].change = c]
  /\ UNCHANGED <<items, next_id, instability, collapse_count, last_collapse,
                 total_messages, now, collapse_threshold, ck, notice,
                 snapshot>>

\* AddLootItem that inserts the item twice
AddLootItemTwice(t) ==
  /\ task[t].pc = "item"
  /\ \E r \in RarityDraws :
       items' = items
                  \cup {[id |-> next_id, user_id |-> task[t].user, rarity |-> r],
                        [id |-> next_id + 1, user_id |-> task[t].user,
                         rarity |-> r]}
  /\ next_id' = next_id + 2
  /\ \E c \in PullIncreases :
       task' = [task EXCEPT ![t].pc = "upd_read", ![t].change = c]
  /\ UNCHANGED <<users, instability, collapse_count, last_collapse,
                 total_messages, now, collapse_threshold, ck, notice,
                 snapshot>>

\* AddLootItem as INSERT OR REPLACE keyed on the owner: the new item takes
\* the place of the items the caller had
AddLootItemReplaces(t) ==
  /\ task[t].pc = "item"
  /\ \E r \in RarityDraws :
       items' = {i \in items : i.user_id # task[t].user}
                  \cup {[id |-> next_id, user_id |-> task[t].user, rarity |-> r]}
  /\ next_id' = next_id + 1
  /\ \E c \in PullIncreases :
       task' = [task EXCEPT ![t].pc = "upd_read", ![t].change = c]
  /\ UNCHANGED <<users, instability, collapse_count, last_collapse,
                 total_messages, now, collapse_threshold, ck, notice,
                 snapshot>>

\* generate_loot (every rarity has a positive weight at every instability),
\* add_loot_item, then the draw of the pull's instability increase
AddLootItem(t) ==
  /\ task[t].pc = "item"
  /\ \E r \in RarityDraws :
       items' = items \cup {[id |-> next_id, user_id |-> task[t].user, rarity |-> r]}
  /\ next_id' = next_id + 1
  /\ \E c \in PullIncreases :
       task' = [task EXCEPT ![t].pc = "upd_read", ![t].change = c]
  /\ UNCHANGED <<users, instability, collapse_count, last_collapse,
                 total_messages, now, collapse_threshold, ck, notice,
                 snapshot>>

\* IncrementMessageCount as a read in Python followed by a write of the
\* value read plus one: the increment of a message that arrives while
\* another one is in flight stores the count that one stored
IncrementMessageCountLossy(t) ==
  /\ CanStart(t)
  /\ total_messages' =
       IF \E s \in Tasks : task[s].kind = "msg"
       THEN total_messages
       ELSE total_messages + 1
  /\ task' = [task EXCEPT ![t] =
       [IdleTask EXCEPT !.kind = "msg", !.pc = "upd_read",
                        !.change = INSTABILITY_INCREASE_PER_MESSAGE]]
  /\ UNCHANGED <<users, items, next_id, instability, collapse_count,
                 last_collapse, now, collapse_threshold, ck, notice,
                 snapshot>>

\* on_message from a user: increment_message_count; on_message then calls
\* update_instability(0.3)
IncrementMessageCount(t) ==
  /\ CanStart(t)
  /\ total_messages' = total_messages + 1
  /\ task' = [task EXCEPT ![t] =
       [IdleTask EXCEPT !.kind = "msg", !.pc = "upd_read",
                        !.change = INSTABILITY_INCREASE_PER_MESSAGE]]
  /\ UNCHANGED <<users, items, next_id, instability, collapse_count,
                 last_collapse, now, collapse_threshold, ck, notice,
                 snapshot>>

\* update_instability: SELECT instability FROM universe_state
\* (epoch notes how many collapses had committed at the read; the code keeps
\* no such value)
UpdateInstabilityRead(t) ==
  /\ task[t].pc = "upd_read"
  /\ task' = [task EXCEPT ![t].pc = "upd_write", ![t].current = instability,
                          ![t].epoch = collapse_count]
  /\ UNCHANGED <<dbvars, collapse_threshold, ck, notice, snapshot>>

\* update_instability: UPDATE universe_state SET instability = ?; commit
UpdateInstabilityWrite(t) ==
  /\ task[t].pc = "upd_write"
  /\ instability' = NewInstability(task[t].current, task[t].change)
  /\ task' = [task EXCEPT ![t] = Ended(task[t], "ok")]
  /\ UNCHANGED <<users, items, next_id, collapse_count, last_collapse,
                 total_messages, now, collapse_threshold, ck, notice,
                 snapshot>>

\* passive_instability_increase: the draw, and update_instability's SELECT.
\* A tasks.loop starts a tick only when the tick before it has returned.
PassiveTick(t) ==
  /\ CanStart(t)
  /\ \A s \in Tasks : task[s].kind = "drift" => Finished(s)
  /\ \E c \in PassiveIncreases :
       task' = [task EXCEPT ![t] =
         [IdleTask EXCEPT !.kind = "drift", !.pc = "upd_write", !.change = c,
                          !.current = instability, !.epoch = collapse_count]]
  /\ UNCHANGED <<dbvars, collapse_threshold, ck, notice, snapshot>>

\* the four stored values of universe_state
UniverseState ==
  [instability |-> instability, collapse_count |-> collapse_count,
   last_collapse |-> last_collapse, total_messages |-> total_messages]

\* the rows of loot_items of one user
UserRows(u) == {i \in items : i.user_id = u}

\* GetUniverseState that takes the count from the last announcement
GetUniverseStateOldCount(t) ==
  /\ CanStart(t)
  /\ task' = [task EXCEPT ![t] =
       [IdleTask EXCEPT !.kind = "status", !.pc = "looters",
                        !.state = [UniverseState EXCEPT
                                     !.collapse_count = notice.collapse_count]]]
  /\ UNCHANGED <<dbvars, collapse_threshold, ck, notice, snapshot>>

\* /status: state = get_universe_state(), SELECT * FROM universe_state
GetUniverseState(t) ==
  /\ CanStart(t)
  /\ task' = [task EXCEPT ![t] =
       [IdleTask EXCEPT !.kind = "status", !.pc = "looters",
                        !.state = UniverseState]]
  /\ UNCHANGED <<dbvars, collapse_threshold, ck, notice, snapshot>>

\* /status: get_top_looters(10), the join of users and loot_items (the
\* values of `state` are only formatted from here on)
GetTopLooters(t) ==
  /\ task[t].pc = "looters"
  /\ task' = [task EXCEPT ![t] =
       [IdleTask EXCEPT !.kind = "status", !.pc = "show",
                        !.seen = {i \in items : users[i.user_id].present},
                        !.until = next_id]]
  /\ UNCHANGED <<dbvars, collapse_threshold, ck, notice, snapshot>>

\* /inventory: items = get_user_inventory(user_id); get_or_create_user is
\* called next
GetUserInventory(t, u) ==
  /\ CanStart(t)
  /\ task' = [task EXCEPT ![t] =
       [IdleTask EXCEPT !.kind = "inventory", !.user = u, !.pc = "get",
                        !.seen = UserRows(u), !.until = next_id]]
  /\ UNCHANGED <<dbvars, collapse_threshold, ck, notice, snapshot>>

\* /inventory: rarity_counts = get_rarity_counts(user_id)
GetRarityCounts(t) ==
  /\ task[t].pc = "counts"
  /\ task' = [task EXCEPT ![t].pc = "show",
                          ![t].seen = UserRows(task[t].user),
                          ![t].until = next_id]
  /\ UNCHANGED <<dbvars, collapse_threshold, ck, notice, snapshot>>

\* /status and /inventory: interaction.followup.send(embed=embed)
FollowupSend(t) ==
  /\ task[t].pc = "show"
  /\ task' = [task EXCEPT ![t] = Ended(task[t], "ok")]
  /\ UNCHANGED <<dbvars, collapse_threshold, ck, notice, snapshot>>

\* --------------------------------------------- threshold check timer
\* CheckerTick that compares with COLLAPSE_THRESHOLD_MAX instead of the
\* threshold in effect
CheckerTickAgainstMax ==
  /\ ck.pc = "tick"
  /\ ck' = IF instability >= COLLAPSE_THRESHOLD_MAX
           THEN [ck EXCEPT !.pc = "count"]
           ELSE ck
  /\ UNCHANGED <<dbvars, collapse_threshold, task, notice, snapshot>>

\* CheckerTick with the comparison turned round: current <= threshold
CheckerTickInverted ==
  /\ ck.pc = "tick"
  /\ ck' = IF instability <= collapse_threshold
           THEN [ck EXCEPT !.pc = "count"]
           ELSE ck
  /\ UNCHANGED <<dbvars, collapse_threshold, task, notice, snapshot>>

\* instability_checker: current = get_instability(); the comparison with
\* self.collapse_threshold.  Below the threshold the tick ends.
CheckerTick ==
  /\ ck.pc = "tick"
  /\ ck' = IF instability >= collapse_threshold
           THEN [ck EXCEPT !.pc = "count"]
           ELSE ck
  /\ UNCHANGED <<dbvars, collapse_threshold, task, notice, snapshot>>

\* trigger_collapse: SELECT COUNT(*) FROM loot_items
CollapseCountItems ==
  /\ ck.pc = "count"
  /\ LET n == Cardinality(items) IN
       ck' = [ck EXCEPT !.total_items = n,
                        !.pc = IF n = 0 THEN "empty" ELSE "ids"]
  /\ UNCHANGED <<dbvars, collapse_threshold, task, notice, snapshot>>

\* CollapseEmpty that returns 0, 0 without the UPDATE
CollapseEmptyNoReset ==
  /\ ck.pc = "empty"
  /\ ck' = [IdleChecker EXCEPT !.pc = "state"]
  /\ UNCHANGED <<dbvars, collapse_threshold, task, notice, snapshot>>

\* trigger_collapse, total_items == 0: the UPDATE, commit, return 0, 0
CollapseEmpty ==
  /\ ck.pc = "empty"
  /\ ResetUniverse
  /\ ck' = [IdleChecker EXCEPT !.pc = "state"]
  /\ UNCHANGED <<users, items, next_id, total_messages, collapse_threshold,
                 task, notice, snapshot>>

\* trigger_collapse: SELECT id FROM loot_items
CollapseListIds ==
  /\ ck.pc = "ids"
  /\ ck' = [ck EXCEPT !.all_ids = {i.id : i \in items}, !.pc = "delete"]
  /\ UNCHANGED <<dbvars, collapse_threshold, task, notice, snapshot>>

\* CollapseDelete whose DELETE is committed row by row: the rows after the
\* first selected one are still stored when the reset commits
CollapseDeleteRowByRow ==
  /\ ck.pc = "delete"
  /\ \E pct \in RemovalPercents :
       LET items_to_remove == ItemsToRemove(ck.total_items, pct) IN
         \E ids_to_remove \in SUBSET ck.all_ids :
           /\ Cardinality(ids_to_remove) = items_to_remove
           /\ items' = {i \in items :
                          \/ i.id \notin ids_to_remove
                          \/ \E j \in ids_to_remove : j < i.id}
           /\ ck' = [IdleChecker EXCEPT !.pc = "state",
                                        !.items_removed = items_to_remove,
                                        !.total_items = ck.total_items,
                                        !.removed =
                                          {i \in items : i.id \in ids_to_remove}]
  /\ ResetUniverse
  /\ UNCHANGED <<users, next_id, total_messages, collapse_threshold, task,
                 notice, snapshot>>

\* trigger_collapse: the draw of the percentage and of the sample, then the
\* DELETE, the UPDATE and the commit as one transaction; returns
\* items_to_remove, total_items
CollapseDelete ==
  /\ ck.pc = "delete"
  /\ \E pct \in RemovalPercents :
       LET items_to_remove == ItemsToRemove(ck.total_items, pct) IN
         \E ids_to_remove \in SUBSET ck.all_ids :
           /\ Cardinality(ids_to_remove) = items_to_remove
           /\ items' = {i \in items : i.id \notin ids_to_remove}
           /\ ck' = [IdleChecker EXCEPT !.pc = "state",
                                        !.items_removed = items_to_remove,
                                        !.total_items = ck.total_items,
                                        !.removed =
                                          {i \in items : i.id \in ids_to_remove}]
  /\ ResetUniverse
  /\ UNCHANGED <<users, next_id, total_messages, collapse_threshold, task,
                 notice, snapshot>>

\* CollapseNotify that numbers the collapse by counting its own announcements
\* instead of reading universe_state
CollapseNotifyOwnCounter ==
  /\ ck.pc = "state"
  /\ notice' = [items_removed |-> ck.items_removed,
                collapse_count |-> notice.collapse_count + 1]
  /\ collapse_threshold' \in Thresholds
  /\ ck' = IdleChecker
  /\ UNCHANGED <<dbvars, task, snapshot>>

\* trigger_universe_collapse: state = get_universe_state(), then the
\* announcement is sent; back in instability_checker the threshold is drawn
\* anew and the tick ends
CollapseNotify ==
  /\ ck.pc = "state"
  /\ notice' = [items_removed |-> ck.items_removed,
                collapse_count |-> collapse_count]
  /\ collapse_threshold' \in Thresholds
  /\ ck' = IdleChecker
  /\ UNCHANGED <<dbvars, task, snapshot>>

\* trigger_universe_collapse: channel.send raises a connection error
\* (OSError, aiohttp.ClientError, asyncio.TimeoutError); nothing in the bot
\* catches it, the line that draws a new threshold is not reached, and the
\* tasks.loop runs the tick again after a back-off
CollapseNotifyRetried ==
  /\ ck.pc = "state"
  /\ ck' = IdleChecker
  /\ UNCHANGED <<dbvars, collapse_threshold, task, notice, snapshot>>

\* CollapseNotifyFails that draws a new threshold on its way out
CollapseNotifyFailsRerolls ==
  /\ ck.pc = "state"
  /\ ck' = [IdleChecker EXCEPT !.pc = "stopped"]
  /\ collapse_threshold' \in Thresholds
  /\ UNCHANGED <<dbvars, task, notice, snapshot>>

\* trigger_universe_collapse: channel.send raises any other exception than
\* discord.Forbidden (discord.HTTPException, discord.NotFound); nothing
\* catches it and the tasks.loop ends
CollapseNotifyFails ==
  /\ ck.pc = "state"
  /\ ck' = [IdleChecker EXCEPT !.pc = "stopped"]
  /\ UNCHANGED <<dbvars, collapse_threshold, task, notice, snapshot>>

\* ---------------------------------------------------------------- Next
TaskStep(t) ==
  \/ OnMessageBot(t)
  \/ \E u \in Users : StartCommand(t, "pull", u)
  \/ \E u \in Users : StartCommand(t, "stabilize", u)
  \/ GetUser(t)
  \/ InsertUser(t)
  \/ RegetUser(t)
  \/ UpdateUserCredits(t)
  \/ IncrementUserStat(t)
  \/ AddLootItem(t)
  \/ IncrementMessageCount(t)
  \/ UpdateInstabilityRead(t)
  \/ UpdateInstabilityWrite(t)
  \/ PassiveTick(t)
  \/ GetUniverseState(t)
  \/ GetTopLooters(t)
  \/ \E u \in Users : GetUserInventory(t, u)
  \/ GetRarityCounts(t)
  \/ FollowupSend(t)

CheckerStep ==
  \/ CheckerTick
  \/ CollapseCountItems
  \/ CollapseEmpty
  \/ CollapseListIds
  \/ CollapseDelete
  \/ CollapseNotify
  \/ CollapseNotifyRetried
  \/ CollapseNotifyFails

Next ==
  \/ \E t \in Tasks : TaskStep(t)
  \/ CheckerStep

Spec == Init /\ [][Next]_vars

\* ------------------------------------ one user, one command at a time
\* a database initialize_database has just created and a bot just built
FreshDatabase ==
  /\ snapshot = "fresh"
  /\ users = [u \in Users |-> AbsentUser]
  /\ items = {}
  /\ next_id = 1
  /\ collapse_count = 0
  /\ now = 0
  /\ last_collapse = Null
  /\ total_messages = 0
  /\ collapse_threshold \in Thresholds
  /\ ck = IdleChecker
  /\ notice = NoNotice

InitPulls ==
  /\ FreshDatabase
  /\ instability = 0
  /\ task = [t \in Tasks |-> IdleTask]

\* the command has answered and its coroutine is gone; the user may send
\* the next one
CommandReturns(t) ==
  /\ Finished(t)
  /\ task' = [task EXCEPT ![t] = IdleTask]
  /\ UNCHANGED <<dbvars, collapse_threshold, ck, notice, snapshot>>

\* user u1 sends /pull again and again, each after the answer to the last
NextPulls ==
  \/ StartCommand(1, "pull", "u1")
  \/ GetUser(1)
  \/ InsertUser(1)
  \/ RegetUser(1)
  \/ UpdateUserCredits(1)
  \/ IncrementUserStat(1)
  \/ AddLootItem(1)
  \/ UpdateInstabilityRead(1)
  \/ UpdateInstabilityWrite(1)
  \/ CommandReturns(1)

SpecPulls == InitPulls /\ [][NextPulls]_vars

\* ------------------------------- update_instability, call after call
\* stored values the calls start from, neither of them an end of the range
AdjustStarts == {INSTABILITY_INCREASE_PER_MESSAGE, MaxInstability \div 2}
\* the changes passed: -1000.0 and +1000.0, a stabilization, a message, a pull
AdjustDeltas ==
  {0 - 10 * MaxInstability, 0 - StabilizeReductionMax,
   INSTABILITY_INCREASE_PER_MESSAGE, PullIncreaseMax, 10 * MaxInstability}

InitAdjust ==
  /\ FreshDatabase
  /\ instability \in AdjustStarts
  /\ task = [t \in Tasks |-> IdleTask]

\* a caller enters update_instability(change)
CallUpdateInstability(t, change) ==
  /\ task[t].pc = "idle"
  /\ task' = [task EXCEPT ![t] =
       [IdleTask EXCEPT !.kind = "adjust", !.pc = "upd_read",
                        !.change = change]]
  /\ UNCHANGED <<dbvars, collapse_threshold, ck, notice, snapshot>>

\* one caller makes each call after the call before it has returned
NextAdjust ==
  \/ \E change \in AdjustDeltas : CallUpdateInstability(1, change)
  \/ UpdateInstabilityRead(1)
  \/ UpdateInstabilityWrite(1)
  \/ CommandReturns(1)

SpecAdjust == InitAdjust /\ [][NextAdjust]_vars

\* ------------------------------------ calculate_adjusted_probabilities
\* RARITY_TIERS[rarity]["base_probability"], in thousandths
BaseProbability ==
  [r \in Rarities |->
     CASE r = "Common" -> 600
       [] r = "Rare" -> 250
       [] r = "Epic" -> 100
       [] r = "Legendary" -> 40
       [] r = "Mythic" -> 8
       [] r = "Reality Breaker" -> 2]

\* ChaosWeight with the factors of Common and Reality Breaker exchanged
ChaosWeightSwapped ==
  [r \in Rarities |->
     CASE r = "Common" -> 150
       [] r = "Rare" -> 5
       [] r = "Epic" -> 15
       [] r = "Legendary" -> 30
       [] r = "Mythic" -> 60
       [] r = "Reality Breaker" -> 0 - 7]

\* the factor of chaos_factor in each branch, in tenths: base * (1 - 0.7 *
\* chaos_factor) for Common, base * (1 + 0.5 * chaos_factor) for Rare, ...
ChaosWeight ==
  [r \in Rarities |->
     CASE r = "Common" -> 0 - 7
       [] r = "Rare" -> 5
       [] r = "Epic" -> 15
       [] r = "Legendary" -> 30
       [] r = "Mythic" -> 60
       [] r = "Reality Breaker" -> 150]

\* adjusted[rarity] before the normalisation, as a count of ten-millionths:
\* with chaos_factor = inst / 1000 (inst in tenths of a percent),
\* base * (1 + w * chaos_factor) = base_thousandths * (10000 + w_tenths * inst)
\* / 10^7
Adjusted(r, inst) == BaseProbability[r] * (10000 + ChaosWeight[r] * inst)

RECURSIVE SumValues(_, _)
\* sum(adjusted.values())
SumValues(f, S) ==
  IF S = {} THEN 0
  ELSE LET r == CHOOSE q \in S : TRUE IN f[r] + SumValues(f, S \ {r})

\* total = sum(adjusted.values())
Total(inst) == SumValues([r \in Rarities |-> Adjusted(r, inst)], Rarities)

\* the dict returned: adjusted[rarity] / total, kept as the exact quotient
\* num / den (the rounding of float division is not modelled)
calculate_adjusted_probabilities(inst) ==
  [r \in Rarities |-> [num |-> Adjusted(r, inst), den |-> Total(inst)]]

\* the arguments tried, in tenths of a percent
ProbInputs == {50 * k : k \in (0 - ProbSpan) .. ProbSpan}

\* a caller has entered calculate_adjusted_probabilities(inst)
InitProb ==
  /\ FreshDatabase
  /\ instability = 0
  /\ \E inst \in ProbInputs :
       task = [t \in Tasks |->
                 IF t = 1
                 THEN [IdleTask EXCEPT !.kind = "prob", !.pc = "call",
                                       !.current = inst]
                 ELSE IdleTask]

\* calculate_adjusted_probabilities runs to its return; `adjusted[rarity] /=
\* total` raises ZeroDivisionError when total is 0
CalculateAdjustedProbabilities(t) ==
  /\ task[t].pc = "call"
  /\ task' = [task EXCEPT ![t] =
       IF Total(task[t].current) = 0
       THEN [@ EXCEPT !.pc = "error"]
       ELSE [@ EXCEPT !.pc = "returned",
                      !.adjusted =
                        calculate_adjusted_probabilities(task[t].current)]]
  /\ UNCHANGED <<dbvars, collapse_threshold, ck, notice, snapshot>>

NextProb == CalculateAdjustedProbabilities(1)

SpecProb == InitProb /\ [][NextProb]_vars

\* ------------------------------------------------ the collapse cycle
\* the number of collapses followed
MaxCycles == 2

\* the bot starts on a database without users or items
InitCycle ==
  /\ FreshDatabase
  /\ instability \in InitInstabilities
  /\ task = [t \in Tasks |-> IdleTask]

\* passive_instability_increase, a tasks.loop: a tick reads, writes and
\* returns, and five minutes later the next tick starts
DriftStep ==
  /\ collapse_count < MaxCycles
  /\ \/ PassiveTick(1)
     \/ UpdateInstabilityWrite(1)
     \/ CommandReturns(1)

\* instability_checker, a tasks.loop, with every announcement delivered
CheckerCycleStep ==
  /\ collapse_count < MaxCycles
  /\ \/ CheckerTick
     \/ CollapseCountItems
     \/ CollapseEmpty
     \/ CollapseNotify

NextCycle == DriftStep \/ CheckerCycleStep

\* the run after the last /stabilize has been applied: the two loops alone.
\* Both are rescheduled by discord.ext.tasks after every tick, and each
\* database call they await returns
SpecCycle ==
  /\ InitCycle
  /\ [][NextCycle]_vars
  /\ WF_vars(DriftStep)
  /\ WF_vars(CheckerCycleStep)

\* ------------------------------------------------ two calls compared
\* the number of equal parts of [0, 100] whose end points are passed
MonoPoints == 40

\* the arguments compared, in tenths of a percent: 0.0 up to 100.0
MonoInputs ==
  {(MaxInstability * k) \div MonoPoints : k \in 0 .. MonoPoints}

\* two callers have entered calculate_adjusted_probabilities, the first with
\* the lower argument
InitMono ==
  /\ FreshDatabase
  /\ instability = 0
  /\ \E a \in MonoInputs, b \in MonoInputs :
       /\ a <= b
       /\ task = [t \in Tasks |->
                    IF t = 1
                    THEN [IdleTask EXCEPT !.kind = "prob", !.pc = "call",
                                          !.current = a]
                    ELSE IF t = 2
                    THEN [IdleTask EXCEPT !.kind = "prob", !.pc = "call",
                                          !.current = b]
                    ELSE IdleTask]

NextMono == \E t \in {1, 2} : CalculateAdjustedProbabilities(t)

SpecMono == InitMono /\ [][NextMono]_vars

\* -------------------------------------------------------------- claims
\* the step that completes task t's update_instability
WriteStep(t) == task[t].pc = "upd_write" /\ task'[t].pc # "upd_write"
\* the step that commits trigger_collapse
CommitStep == ck.pc \in {"empty", "delete"} /\ ck'.pc = "state"
InRange(x) == MinInstability <= x /\ x <= MaxInstability
AllFinished == \A t \in Tasks : Finished(t)
InitialCollapses == IF snapshot = "spent" THEN 1 ELSE 0

\* C1: no lost update on instability.  Two update_instability calls that
\* overlap, with no collapse in between and no clamping, leave the starting
\* value plus both deltas: every write stores the value it finds plus its own
\* delta.
C1_NoLostUpdate ==
  [][\A t \in Tasks :
       (/\ WriteStep(t)
        /\ task[t].epoch = collapse_count
        /\ InRange(task[t].current + task[t].change)
        /\ InRange(instability + task[t].change))
       => instability' = instability + task[t].change]_vars

\* C2: a collapse reset is never overwritten by an adjust in flight.  A write
\* whose read came before the collapse committed, made on the reset value,
\* stores clamp(0 + delta).
C2_CollapseNotOverwritten ==
  [][\A t \in Tasks :
       (/\ WriteStep(t)
        /\ task[t].epoch < collapse_count
        /\ instability = 0)
       => instability' = Clamp(0 + task[t].change)]_vars

\* C3: the debit is check-then-act atomic.  When N pulls of one user, who
\* does nothing else, have run against a balance of K < N credits, exactly K
\* succeeded, N - K were rejected and the balance is 0.
C3_DebitAtomic ==
  AllFinished =>
    \A u \in Users :
      LET P == {t \in Tasks : task[t].kind = "pull" /\ task[t].user = u}
          K == InitialCredits(snapshot, u)
      IN  (/\ K < Cardinality(P)
           /\ \A t \in Tasks : task[t].user = u => t \in P)
          => /\ Cardinality({t \in P : task[t].pc = "ok"}) = K
             /\ Cardinality({t \in P : task[t].pc = "rejected"}) = Cardinality(P) - K
             /\ users[u].credits = 0

\* C4: every user's credits balance is >= 0 in every reachable state.
C4_CreditsNonNegative == \A u \in Users : users[u].credits >= 0

\* C5: the stored instability lies in [0, 100] in every reachable state.
C5_InstabilityInRange == InRange(instability)

\* a stabilize that ran with no collapse since the start and left 0: its
\* write was clamped at the lower end
C5_Witness ==
  /\ instability = MinInstability
  /\ collapse_count = InitialCollapses
  /\ \E t \in Tasks : task[t].kind = "stabilize" /\ task[t].pc = "ok"

\* C6: a rejected spend mutates nothing.  The step of a pull or a stabilize
\* that reads a balance below its cost ends the command as rejected and
\* leaves every table as it was.
C6_RejectedSpendMutatesNothing ==
  [][\A t \in Tasks :
       (/\ task[t].kind \in {"pull", "stabilize"}
        /\ task[t].pc \in {"get", "reget"}
        /\ task'[t] # task[t]
        /\ users[task[t].user].present
        /\ users[task[t].user].credits < Cost(task[t].kind))
       => /\ task'[t].pc = "rejected"
          /\ UNCHANGED dbvars]_vars

\* a pull that read a balance of 0 has been rejected
C6_Witness ==
  \E t \in Tasks : task[t].kind = "pull" /\ task[t].pc = "rejected"

\* C7: collapse counts are exact.  The total a collapse returns is the item
\* count at the moment the deletion takes effect, and the item count right
\* after it is total - removed.
C7_CollapseCountsExact ==
  [][CommitStep =>
       /\ ck'.total_items = Cardinality(items)
       /\ Cardinality(items') = ck'.total_items - ck'.items_removed]_vars

C9_EmptyCollapseNoMutation ==
  [][(ck.pc = "empty" /\ ck'.pc = "state") =>
       /\ ck'.items_removed = 0 /\ ck'.total_items = 0
       /\ UNCHANGED dbvars]_vars

\* C9 as amended: with no items counted, the collapse returns (0, 0) and
\* changes no user and no item; it resets the universe state as every
\* collapse does (instability 0, collapse_count + 1, last_collapse set).
C9_EmptyCollapseKeepsInventory ==
  [][(ck.pc = "empty" /\ ck'.pc # "empty") =>
       /\ ck'.pc = "state"
       /\ ck'.items_removed = 0 /\ ck'.total_items = 0
       /\ UNCHANGED <<users, items, next_id, total_messages>>
       /\ instability' = 0
       /\ collapse_count' = collapse_count + 1
       /\ last_collapse' # Null /\ last_collapse' # last_collapse]_vars

\* a collapse that counted no items has returned (0, 0)
C9_Witness ==
  /\ ck.pc = "state" /\ ck.total_items = 0
  /\ collapse_count = InitialCollapses + 1

\* C10: a threshold-check tick that reads an instability >= the threshold
\* executes the collapse procedure: the tick can only enter it, the procedure
\* raises collapse_count by exactly 1, once, and leaves instability 0.
C10_ThresholdTickCollapses ==
  /\ []((ck.pc = "tick" /\ instability >= collapse_threshold)
          => ENABLED (CheckerStep /\ ck'.pc = "count"))
  /\ [][/\ (ck.pc = "tick" /\ instability >= collapse_threshold /\ ck' # ck)
             => ck'.pc = "count"
        /\ (ck.pc \in {"count", "ids", "empty", "delete"} /\ ck' # ck)
             => ck'.pc \in {"ids", "empty", "delete", "state"}
        /\ CommitStep
             => instability' = 0 /\ collapse_count' = collapse_count + 1
        /\ collapse_count' # collapse_count => CommitStep
        /\ ck'.pc = "state" /\ ck.pc # "state" => CommitStep]_vars

\* the collapse of a tick that read an instability at or above the threshold
\* has committed and nothing has written the instability since
C10_Witness ==
  /\ ck.pc = "state"
  /\ instability = 0
  /\ collapse_count = InitialCollapses + 1

\* C11: collapse_count never decreases and changes only in the step that
\* commits a collapse, where it goes up by exactly 1; last_collapse changes
\* only there too.  The steps of message events, pulls, stabilizations and
\* passive drift leave both unchanged.
C11_CollapseCountMonotone ==
  [][/\ collapse_count' >= collapse_count
     /\ (collapse_count' # collapse_count \/ last_collapse' # last_collapse)
          => CommitStep /\ collapse_count' = collapse_count + 1
     /\ task' # task => UNCHANGED <<collapse_count, last_collapse>>]_vars

\* a pull has run to its end and a collapse has committed
C11_Witness ==
  /\ collapse_count = InitialCollapses + 1
  /\ \E t \in Tasks : task[t].kind = "pull" /\ task[t].pc = "ok"

\* C14: the collapse threshold is drawn anew only by the step that ends a
\* collapse procedure that sent its announcement; a step in which the
\* procedure raises leaves the threshold as it was, for the next tick to
\* compare against.
C14_RerollOnlyAfterSuccess ==
  [][/\ collapse_threshold' # collapse_threshold
          => ck.pc = "state" /\ ck'.pc = "tick" /\ notice' # notice
     /\ (ck.pc = "state" /\ ck' # ck /\ notice' = notice)
          => UNCHANGED collapse_threshold]_vars

\* a collapse has committed, its announcement raised, and the timer is at its
\* next tick
C14_Witness ==
  /\ ck.pc = "tick"
  /\ collapse_count = InitialCollapses + 1
  /\ notice = NoNotice

\* C15: an error raised by the collapse procedure does not stop the periodic
\* threshold check: the instability_checker timer is never stopped.
C15_CheckerKeepsRunning == ck.pc # "stopped"

\* C16: the collapse threshold lies in the half-open range [95, 99) in every
\* reachable state.
C16_ThresholdHalfOpen ==
  /\ COLLAPSE_THRESHOLD_MIN <= collapse_threshold
  /\ collapse_threshold < COLLAPSE_THRESHOLD_MAX

\* C16 as amended: the collapse threshold lies in the closed range [95, 99]
\* in every reachable state.
C16_ThresholdInClosedRange ==
  /\ COLLAPSE_THRESHOLD_MIN <= collapse_threshold
  /\ collapse_threshold <= COLLAPSE_THRESHOLD_MAX

\* the threshold drawn after an announced collapse is 99.0 itself
C16_Witness ==
  /\ notice # NoNotice
  /\ ck.pc = "tick"
  /\ collapse_threshold = COLLAPSE_THRESHOLD_MAX

\* a step of task t inside get_or_create_user
GetOrCreateStep(t) ==
  task[t].pc \in {"get", "insert", "reget"} /\ task'[t] # task[t]

\* C17: get_or_create_user is idempotent per id.  Whatever the calls for one
\* user id, one after another or interleaved, no call ends in an error, the
\* call that creates the record creates it with 10 credits and no pulls or
\* stabilizations, and a call that finds the record leaves it as it is.
C17_GetOrCreateIdempotent ==
  [][\A t \in Tasks :
       GetOrCreateStep(t) =>
         LET u == task[t].user IN
           /\ task'[t].pc # "error"
           /\ users[u].present => users'[u] = users[u]
           /\ (~users[u].present /\ users'[u].present) => users'[u] = NewUser]_vars

\* C12: a universe-state snapshot is a consistent point-in-time read.  The
\* four values get_universe_state returns are the four stored values of one
\* state, the state the read is made in, whatever collapse or instability
\* update is under way in another coroutine; the collapse_count an
\* announcement shows is the stored one too.
C12_SnapshotIsOneState ==
  [][/\ \A t \in Tasks :
          (task[t].pc = "idle" /\ task'[t].kind = "status")
            => task'[t].state = UniverseState
     /\ notice' # notice => notice'.collapse_count = collapse_count]_vars

\* /status has read the universe state between a collapse's commit and its
\* announcement, with an update_instability of another coroutine half done
C12_Witness ==
  /\ ck.pc = "state"
  /\ \E t \in Tasks :
       /\ task[t].pc = "looters"
       /\ task[t].state.collapse_count = InitialCollapses + 1
       /\ task[t].state.instability = 0
  /\ \E t \in Tasks : task[t].pc = "upd_write"

\* task t holds the rows an inventory query returned
Reading(t) ==
  \/ task[t].kind = "status" /\ task[t].pc = "show"
  \/ task[t].kind = "inventory"
\* row i is one the query of tk ranges over
InScope(tk, i) == tk.kind = "status" \/ i.user_id = tk.user

\* C13: collapse deletion is atomic to readers.  Of the rows a collapse has
\* deleted that an inventory read ranges over and that existed when it was
\* made, the read returned all (it saw the set before the collapse) or none
\* (it saw the set after it), never a part.
C13_ReadersSeeWholeCollapse ==
  ck.pc = "state" =>
    \A t \in Tasks :
      Reading(t) =>
        LET D == {i \in ck.removed :
                    InScope(task[t], i) /\ i.id < task[t].until}
        IN  D \cap task[t].seen = {} \/ D \subseteq task[t].seen

\* a collapse has deleted two rows that an inventory read made before its
\* commit returned
C13_Witness ==
  /\ ck.pc = "state"
  /\ Cardinality(ck.removed) >= 2
  /\ \E t \in Tasks : Reading(t) /\ ck.removed \subseteq task[t].seen

\* C18: a fresh user who pulls again and again, one pull after another,
\* succeeds on exactly the first 10.  The balance is 10 less 1 per pull made,
\* it is 0 after the 10th, and a pull is rejected only then: the 11th and
\* every later one, each for insufficient funds.
C18_TenPullsThenRejected ==
  LET row == users["u1"]
      tk == task[1]
      debited == row.total_pulls + (IF tk.pc = "stat" THEN 1 ELSE 0)
  IN  /\ row.present => row.credits = StartingCredits - PullCost * debited
      /\ row.total_pulls * PullCost <= StartingCredits
      /\ tk.pc = "debit" => row.total_pulls * PullCost < StartingCredits
      /\ tk.pc = "rejected"
           => row.total_pulls * PullCost = StartingCredits /\ row.credits = 0
      /\ tk.pc # "error"

\* the 11th pull has been rejected: 10 pulls made, 10 items, balance 0
C18_Witness ==
  /\ task[1].pc = "rejected"
  /\ users["u1"].total_pulls = StartingCredits
  /\ users["u1"].credits = 0
  /\ next_id = StartingCredits + 1

\* C19: update_instability saturates and is idempotent at the bounds.  A
\* call made after the one before it returned stores (and returns, the same
\* local) clamp(stored + delta, 0, 100): exactly 100.0 for +1000 and exactly
\* 0.0 for -1000 from any value, so that the same call made again leaves the
\* value where it is.
C19_SaturatesAtBounds ==
  [][WriteStep(1) =>
       LET delta == task[1].change IN
         /\ task[1].current = instability
         /\ instability' = Clamp(instability + delta)
         /\ delta = 10 * MaxInstability => instability' = MaxInstability
         /\ delta = 0 - 10 * MaxInstability => instability' = MinInstability
         /\ (delta = 10 * MaxInstability /\ instability = MaxInstability)
              => instability' = instability
         /\ (delta = 0 - 10 * MaxInstability /\ instability = MinInstability)
              => instability' = instability]_vars

\* update_instability(+1000) is about to write on a value that an earlier
\* call took to 100.0
C19_Witness ==
  /\ task[1].pc = "upd_write"
  /\ task[1].change = 10 * MaxInstability
  /\ task[1].current = MaxInstability

Product(a, b) ==
  LET a1 == a \div 10000
      a0 == a % 10000
      b1 == b \div 10000
      b0 == b % 10000
      lo == a0 * b0
      mid == a1 * b0 + a0 * b1 + lo \div 10000
      hi == a1 * b1 + mid \div 10000
  IN  <<hi, mid % 10000, lo % 10000>>

DigitsLeq(p, q) ==
  \/ p[1] < q[1]
  \/ p[1] = q[1] /\ p[2] < q[2]
  \/ p[1] = q[1] /\ p[2] = q[2] /\ p[3] <= q[3]

\* x.num / x.den <= y.num / y.den, for quotients of naturals with positive
\* denominators
WeightLeq(x, y) ==
  DigitsLeq(Product(x.num, y.den), Product(y.num, x.den))

\* C21: for instabilities a <= b in [0, 100], the Common weight returned for
\* b is at most the one returned for a, and the Reality Breaker weight
\* returned for b is at least the one returned for a.
C21_MonotoneInInstability ==
  /\ \A t \in {1, 2} : task[t].pc \in {"call", "returned"}
  /\ (task[1].pc = "returned" /\ task[2].pc = "returned"
        /\ task[1].current <= task[2].current) =>
       /\ WeightLeq(task[2].adjusted["Common"], task[1].adjusted["Common"])
       /\ WeightLeq(task[1].adjusted["Reality Breaker"],
                    task[2].adjusted["Reality Breaker"])

\* 40.0 and 85.0 have been passed: Common fell and Reality Breaker rose,
\* both strictly
C21_Witness ==
  /\ task[1].pc = "returned" /\ task[2].pc = "returned"
  /\ task[1].current = 400 /\ task[2].current = 850
  /\ ~WeightLeq(task[1].adjusted["Common"], task[2].adjusted["Common"])
  /\ ~WeightLeq(task[2].adjusted["Reality Breaker"],
                 task[1].adjusted["Reality Breaker"])

\* a message of a user arrives: on_message passes the bot check
MessageArrives(t) == task[t].pc = "idle" /\ task'[t].kind = "msg"

\* C22: every non-bot message adds exactly 1 to total_messages, whatever
\* else is in flight, no other step changes the counter, and it never
\* decreases; so after N messages it has grown by exactly N.
C22_MessageCountExact ==
  /\ [](/\ total_messages >= Cardinality({t \in Tasks : task[t].kind = "msg"})
        /\ total_messages <=
             Cardinality({t \in Tasks : task[t].pc # "idle"}))
  /\ [][/\ total_messages' >= total_messages
        /\ \A t \in Tasks :
             MessageArrives(t) => total_messages' = total_messages + 1
        /\ total_messages' # total_messages =>
             /\ \E t \in Tasks : MessageArrives(t)
             /\ total_messages' = total_messages + 1]_vars

\* two messages were processed to the end, the second one arriving while
\* the first was between its read and its write, with a collapse committed
\* in between
C22_Witness ==
  /\ total_messages = 2
  /\ AllFinished
  /\ collapse_count = InitialCollapses + 1
  /\ instability = 2 * INSTABILITY_INCREASE_PER_MESSAGE

\* the checker is inside trigger_collapse
InCollapse(c) == c.pc \in {"count", "ids", "empty", "delete"}

\* C23: trigger_collapse is entered only by a tick of instability_checker
\* that read an instability at or above the threshold then in effect (hence
\* at or above 95), its steps are taken only by the checker, and no step of
\* a command, a message or a passive-drift tick deletes an item or touches
\* the collapse counters.
C23_OnlyThresholdTickCollapses ==
  [][/\ (InCollapse(ck') /\ ~InCollapse(ck)) =>
          /\ ck.pc = "tick"
          /\ instability >= collapse_threshold
          /\ instability >= COLLAPSE_THRESHOLD_MIN
     /\ (ck.pc = "tick" /\ instability < COLLAPSE_THRESHOLD_MIN) =>
          ck'.pc = "tick"
     /\ CommitStep => InCollapse(ck) /\ task' = task
     /\ (collapse_count' # collapse_count \/ last_collapse' # last_collapse
           \/ ~(items \subseteq items')) =>
          CommitStep
     /\ task' # task =>
          /\ ck' = ck
          /\ items \subseteq items'
          /\ UNCHANGED <<collapse_count, last_collapse, notice,
                         collapse_threshold>>]_vars

\* the checker is about to delete while a pull that paid is about to insert
\* its item
C23_Witness ==
  /\ ck.pc = "delete"
  /\ \E t \in Tasks : task[t].kind = "pull" /\ task[t].pc = "item"

\* C24: only the committing step of a collapse removes items; every other
\* step keeps each existing row as it is, and a row's owner and rarity are
\* never rewritten, so between two collapses the item set only grows.
C24_OnlyCollapseRemovesItems ==
  [][/\ ~CommitStep => items \subseteq items'
     /\ CommitStep => items' \subseteq items
     /\ \A i \in items, j \in items' : i.id = j.id => i = j
     /\ \A j \in items' \ items : j.id = next_id /\ next_id' > next_id]_vars

\* no collapse since the snapshot was taken, and both users have added an
\* item to the two that were there
C24_Witness ==
  /\ snapshot = "spent"
  /\ collapse_count = InitialCollapses
  /\ Cardinality(items) = 4
  /\ \E i \in items : i.user_id = "u2"

\* the pulls that have incremented total_pulls and not yet inserted their item
PullsOwedAnItem == {t \in Tasks : task[t].kind = "pull" /\ task[t].pc = "item"}

\* a step of the pull that task t runs
PullStep(t) == task[t].kind = "pull" /\ task'[t] # task[t]

\* the rows of loot_items the step has added that the caller of t owns
Granted(t) == {i \in items' \ items : i.user_id = task[t].user}

\* C25: a pull that passed the credit check debits 1 credit, then adds 1 to
\* the caller's total_pulls, then inserts one item of the caller, then makes
\* one update_instability call with a positive change, each once and in this
\* order; a rejected pull does none of them, and every item ever inserted
\* belongs to a pull that debited.
C25_PullChargesAndGrantsOnce ==
  /\ [](next_id - 1 + Cardinality(PullsOwedAnItem)
          = users["u1"].total_pulls + users["u2"].total_pulls)
  /\ [][\A t \in Tasks : PullStep(t) =>
          LET u == task[t].user IN
            /\ task[t].pc = "get" =>
                 /\ task'[t].pc \in {"insert", "debit", "rejected"}
                 /\ UNCHANGED dbvars
            /\ task[t].pc = "insert" =>
                 /\ task'[t].pc \in {"reget", "error"}
                 /\ UNCHANGED <<items, next_id, instability>>
            /\ task[t].pc = "reget" =>
                 /\ task'[t].pc \in {"debit", "rejected"}
                 /\ UNCHANGED dbvars
            /\ task[t].pc = "debit" =>
                 /\ task'[t].pc = "stat"
                 /\ users' = [users EXCEPT ![u].credits = @ - PullCost]
                 /\ UNCHANGED <<items, next_id, instability>>
            /\ task[t].pc = "stat" =>
                 /\ task'[t].pc = "item"
                 /\ users' = [users EXCEPT ![u].total_pulls = @ + 1]
                 /\ UNCHANGED <<items, next_id, instability>>
            /\ task[t].pc = "item" =>
                 /\ task'[t].pc = "upd_read"
                 /\ items \subseteq items'
                 /\ Cardinality(Granted(t)) = 1
                 /\ items' \ items = Granted(t)
                 /\ task'[t].change > 0
                 /\ UNCHANGED <<users, instability>>
            /\ task[t].pc = "upd_read" =>
                 /\ task'[t].pc = "upd_write"
                 /\ UNCHANGED dbvars
            /\ task[t].pc = "upd_write" =>
                 /\ task'[t].pc = "ok"
                 /\ instability' = Clamp(task[t].current + task[t].change)
                 /\ UNCHANGED <<users, items, next_id>>
            /\ task[t].pc \in {"ok", "rejected", "error"} => FALSE]_vars
  /\ [][items' # items /\ ~CommitStep =>
          \E t \in Tasks : PullStep(t) /\ task[t].pc = "item"]_vars

\* two pulls of the same caller both passed the check on the last credit
\* and both ran to the end: two debits, two increments, two items
C25_Witness ==
  /\ snapshot = "spent"
  /\ \A t \in {1, 2} :
       task[t].kind = "pull" /\ task[t].user = "u1" /\ task[t].pc = "ok"
  /\ users["u1"].credits = 0 - 1
  /\ users["u1"].total_pulls = SpentPulls + 2
  /\ next_id = 12

\* the announcement of a collapse is sent
Announced == notice' # notice

\* C26: the announcement is sent only from the position trigger_collapse
\* returns to, that is after the transaction that deletes the items and
\* resets the universe has committed; the number it carries is the
\* collapse_count that commit produced (the count before it plus 1), and
\* the removed and total the procedure holds when it sends are the values
\* trigger_collapse returned.
C26_AnnouncedAfterCommit ==
  [][/\ Announced =>
          /\ ck.pc = "state"
          /\ notice'.collapse_count = collapse_count
          /\ notice'.items_removed = ck.items_removed
          /\ notice'.collapse_count > notice.collapse_count
          /\ UNCHANGED dbvars
     /\ CommitStep =>
          /\ collapse_count' = collapse_count + 1
          /\ instability' = 0
          /\ ck'.total_items = ck.total_items
          /\ ck'.items_removed <= ck'.total_items
     /\ ck.pc = "state" =>
          /\ collapse_count' = collapse_count
          /\ ck' # ck => ck'.pc \in {"tick", "stopped"}]_vars

\* the second collapse since the snapshot has been announced with its own
\* number, and it erased something
C26_Witness ==
  /\ notice.collapse_count = InitialCollapses + 2
  /\ notice.items_removed >= 1
  /\ ck.pc = "tick"

\* C27: with the drift loop and the checker loop both kept running, no
\* failing announcement and /stabilize used finitely often, every collapse
\* is followed by another one: the instability climbs back to the threshold
\* and is reset to 0.
C27_CollapseRecurs ==
  \A n \in 0 .. (MaxCycles - 1) :
    (collapse_count = n) ~> (collapse_count = n + 1 /\ instability = 0)

\* the last collapse followed has been committed from an instability that
\* had to climb from 0, while a drift tick holds the value it read before
C27_Witness ==
  /\ collapse_count = MaxCycles
  /\ instability = 0
  /\ task[1].kind = "drift" /\ task[1].pc = "upd_write"
  /\ task[1].current >= collapse_threshold

\* a command of user u has debited and not yet incremented its counter
BetweenDebitAndStat(u) ==
  \E t \in Tasks : task[t].user = u /\ task[t].pc = "stat"

\* what user u holds and has spent
Holdings(u) ==
  users[u].credits + PullCost * users[u].total_pulls
    + StabilizeCost * users[u].total_stabilizations

\* C28: whenever no command of a user is between its debit and its counter
\* increment, the user's credits + total_pulls + 10 * total_stabilizations
\* is 10, and no step raises the credits of an existing user.
C28_CreditsConserved ==
  /\ [](\A u \in Users :
          (users[u].present /\ ~BetweenDebitAndStat(u)) =>
            Holdings(u) = StartingCredits)
  /\ [][\A u \in Users :
          users[u].present => users'[u].credits <= users[u].credits]_vars

\* u1 has paid for a stabilization and has nothing left, while a command of
\* u2 is between its debit and its increment
C28_Witness ==
  /\ users["u1"].total_stabilizations = 1
  /\ users["u1"].credits = 0
  /\ \E t \in Tasks : task[t].kind = "stabilize" /\ task[t].user = "u1"
                          /\ task[t].pc = "ok"
  /\ BetweenDebitAndStat("u2")

====
